---------------------------- MODULE Spec2Model ----------------------------
(***************************************************************************)
(* A model of src/plot/gnuplot_backend/summary.rs: format_bytes,           *)
(* line_comparison (plain and speedup mode) and violin.                    *)
(*                                                                         *)
(* Numbers.  An f64 is modelled as an exact fraction <<n, d>> with d >= 0  *)
(* in lowest terms; d = 0 gives the IEEE specials: <<0,0>> is NaN,         *)
(* <<1,0>> is +inf and <<-1,0>> is -inf.  Rounding of f64 arithmetic is    *)
(* not modelled; the inputs are small so that every value is exact.        *)
(* An Option<T> is a sequence of length at most one: <<>> is None and      *)
(* <<v>> is Some(v).                                                       *)
(***************************************************************************)
EXTENDS Integers, Sequences, FiniteSets, TLC

VARIABLES
    all_curves,   \* the input slice of curves
    conf,         \* the PlotConfiguration fields the code reads
    formatter,    \* the ValueFormatter handed in (see scale_values)
    pc,           \* the position of the call
    labels,       \* line_comparison: the tic labels; violin: the Y tic labels
    max,          \* the local `max` (both functions have one)
    min,          \* violin: the local `min`
    one,          \* violin: one[0] after scale_values
    pos,          \* number of groups / lanes the loop has consumed
    i,            \* line_comparison: the colour counter `i`
    data,         \* line_comparison, speedup: the BTreeMap<u64, f64>
    kdes,         \* violin: the normalized density estimates
    f,            \* the Figure: the sequence of plots added so far
    y_range,      \* violin: the Range::Limits of the left Y axis
    rendered      \* <<>> until draw() is invoked, then <<the figure drawn>>

vars == <<all_curves, conf, formatter, pc, labels, max, min, one, pos, i,
          data, kdes, f, y_range, rendered>>

---------------------------------------------------------------------------
(* Bounds of the model.                                                    *)

MaxCurves == 3
MaxRunCurves == 5
MaxPaletteCurves == 11
MaxSpeedupCurves == 3
MaxViolinCurves == 3
MaxTics == 1

---------------------------------------------------------------------------
(* f64 arithmetic on fractions.                                            *)

Abs(n) == IF n < 0 THEN -n ELSE n

RECURSIVE GCD(_, _)
GCD(a, b) == IF b = 0 THEN a ELSE GCD(b, a % b)

NaN == <<0, 0>>
Inf == <<1, 0>>
NegInf == <<-1, 0>>

Sign(n) == IF n < 0 THEN -1 ELSE IF n > 0 THEN 1 ELSE 0

\* the fraction n/d; d may be negative or zero
Frac(n, d) ==
    IF d = 0 THEN <<Sign(n), 0>>
    ELSE LET g == GCD(Abs(n), Abs(d))
             s == IF d < 0 THEN -1 ELSE 1
         IN  <<s * (n \div g), Abs(d) \div g>>

Num(n) == <<n, 1>>

IsNaN(a) == a = NaN
IsFinite(a) == a[2] # 0

\* a < b, a <= b, a > b as f64 comparisons: false when either side is NaN
FLt(a, b) ==
    /\ ~IsNaN(a) /\ ~IsNaN(b)
    /\ IF IsFinite(a) /\ IsFinite(b) THEN a[1] * b[2] < b[1] * a[2]
       ELSE IF IsFinite(a) THEN b = Inf
       ELSE IF IsFinite(b) THEN a = NegInf
       ELSE a = NegInf /\ b = Inf
FGt(a, b) == FLt(b, a)
FLe(a, b) == ~IsNaN(a) /\ ~IsNaN(b) /\ ~FLt(b, a)

FMul(a, b) ==
    IF IsNaN(a) \/ IsNaN(b) THEN NaN
    ELSE IF IsFinite(a) /\ IsFinite(b) THEN Frac(a[1] * b[1], a[2] * b[2])
    ELSE <<Sign(a[1]) * Sign(b[1]), 0>>

FDiv(a, b) ==
    IF IsNaN(a) \/ IsNaN(b) THEN NaN
    ELSE IF IsFinite(a) /\ IsFinite(b) THEN Frac(a[1] * b[2], a[2] * b[1])
    ELSE IF IsFinite(a) THEN Num(0)
    ELSE IF IsFinite(b) THEN <<a[1] * (IF b[1] < 0 THEN -1 ELSE 1), 0>>
    ELSE NaN

FAdd(a, b) ==
    IF IsNaN(a) \/ IsNaN(b) THEN NaN
    ELSE IF IsFinite(a) /\ IsFinite(b)
         THEN Frac(a[1] * b[2] + b[1] * a[2], a[2] * b[2])
    ELSE IF IsFinite(a) THEN b
    ELSE IF IsFinite(b) THEN a
    ELSE IF a = b THEN a ELSE NaN

FNeg(a) == <<-a[1], a[2]>>
FSub(a, b) == FAdd(a, FNeg(b))

\* f64::max: the other operand when one is NaN
f64_max(a, b) ==
    IF IsNaN(a) THEN b ELSE IF IsNaN(b) THEN a ELSE IF FLt(a, b) THEN b ELSE a

---------------------------------------------------------------------------
(* Sequence helpers.                                                       *)

RECURSIVE SumSeq(_)
SumSeq(s) == IF s = <<>> THEN 0 ELSE Head(s) + SumSeq(Tail(s))

Reverse(s) == [k \in 1..Len(s) |-> s[Len(s) + 1 - k]]

\* all sequences over S of length 0..n
SeqsUpTo(S, n) == UNION {[1..k -> S] : k \in 0..n}

---------------------------------------------------------------------------
(* Collaborators of the surrounding crate.                                 *)

\* Sample::new(data).mean(): the arithmetic mean of the sample
Mean(sample) == Frac(SumSeq(sample), Len(sample))

\* BenchmarkId::as_number(): Option<f64>
as_number(id) == id.value

\* gnuplot_escape(text): kept as an uninterpreted application
gnuplot_escape(s) == <<"gnuplot_escape", s>>

\* ValueFormatter::scale_values(typical, values): picks a unit from
\* `typical` and multiplies the values by its factor.  A formatter is given
\* by the magnitude below which it switches to the unit 1000 times smaller.
ScaleFactor(typical) ==
    IF FLt(typical, Num(formatter)) THEN Num(1000) ELSE Num(1)
scale_values(typical, values) ==
    [k \in 1..Len(values) |-> FMul(values[k], ScaleFactor(typical))]

---------------------------------------------------------------------------
(* The palette, lines 15-26.                                               *)

NUM_COLORS == 9
COMPARISON_COLORS ==
    << <<178, 34, 34>>, <<46, 139, 87>>, <<0, 139, 139>>, <<255, 215, 0>>,
       <<0, 0, 139>>, <<220, 20, 60>>, <<139, 0, 139>>, <<0, 255, 127>>,
       <<0, 50, 255>> >>

\* a variant of ColorAt that wraps one colour early
ColorAt_wraps_early(k) == COMPARISON_COLORS[(k % (NUM_COLORS - 1)) + 1]

\* COMPARISON_COLORS[i % NUM_COLORS] (the Rust array is indexed from 0)
ColorAt(k) == COMPARISON_COLORS[(k % NUM_COLORS) + 1]


---------------------------------------------------------------------------
(* format_bytes, lines 37-47.  An i64 byte count does not fit the model     *)
(* checker's 32-bit integers, so it is written in base 1024:              *)
(* <<g, m, k, b>> is g*1024^3 + m*1024^2 + k*1024 + b with m, k, b in      *)
(* 0..1023 and g >= 0.  Such a count is below 2^53, so `bytes as f64` and  *)
(* the division by a power of two are exact and "{:.0}" rounds the exact   *)
(* quotient to the nearest integer, a tie going to the even one.           *)

Kib == 1024

DigitChars == <<"0", "1", "2", "3", "4", "5", "6", "7", "8", "9">>

\* the decimal text of a natural number
RECURSIVE Decimal(_)
Decimal(n) ==
    IF n < 10 THEN DigitChars[n + 1]
    ELSE Decimal(n \div 10) \o DigitChars[(n % 10) + 1]

\* format!("{:.0}", whole + rem/unit) for 0 <= rem < unit
FormatRounded(whole, rem, unit) ==
    IF 2 * rem < unit THEN Decimal(whole)
    ELSE IF 2 * rem > unit THEN Decimal(whole + 1)
    ELSE IF whole % 2 = 0 THEN Decimal(whole) ELSE Decimal(whole + 1)

\* bytes < 1024, bytes < 1024 * 1024, bytes < 1024 * 1024 * 1024
BelowKb(bytes) == bytes[1] = 0 /\ bytes[2] = 0 /\ bytes[3] = 0
BelowMb(bytes) == bytes[1] = 0 /\ bytes[2] = 0
BelowGb(bytes) == bytes[1] = 0

\* a variant of format_bytes whose first comparison is `bytes <= 1024`
format_bytes_inclusive(bytes) ==
    IF BelowKb(bytes) \/ bytes = <<0, 0, 1, 0>>
    THEN Decimal(bytes[3] * Kib + bytes[4]) \o "b"
    ELSE IF BelowMb(bytes)
         THEN FormatRounded(bytes[3], bytes[4], Kib) \o "Kb"
    ELSE IF BelowGb(bytes)
         THEN FormatRounded(bytes[2], bytes[3] * Kib + bytes[4], Kib * Kib)
                  \o "Mb"
    ELSE FormatRounded(bytes[1],
                       (bytes[2] * Kib + bytes[3]) * Kib + bytes[4],
                       Kib * Kib * Kib) \o "Gb"

format_bytes(bytes) ==
    IF BelowKb(bytes) THEN Decimal(bytes[4]) \o "b"
    ELSE IF BelowMb(bytes)
         THEN FormatRounded(bytes[3], bytes[4], Kib) \o "Kb"
    ELSE IF BelowGb(bytes)
         THEN FormatRounded(bytes[2], bytes[3] * Kib + bytes[4], Kib * Kib)
                  \o "Mb"
    ELSE FormatRounded(bytes[1],
                       (bytes[2] * Kib + bytes[3]) * Kib + bytes[4],
                       Kib * Kib * Kib) \o "Gb"

---------------------------------------------------------------------------
(* line_comparison, lines 50-237.                                          *)

\* itertools group_by(|(id, _)| &id.function_id): a new group starts at
\* every element whose key differs from the key of the element before it
RECURSIVE GroupFold(_, _)
GroupFold(rest, groups) ==
    IF rest = <<>> THEN groups
    ELSE LET c == Head(rest)
             n == Len(groups)
         IN  IF n > 0 /\ groups[n].key = c.id.function_id
             THEN GroupFold(Tail(rest),
                    [groups EXCEPT ![n].members = Append(@, c)])
             ELSE GroupFold(Tail(rest),
                    Append(groups, [key |-> c.id.function_id,
                                    members |-> <<c>>]))

\* a variant of group_by that partitions by key: a curve joins the group
\* of its key wherever that group is
RECURSIVE PartitionFold(_, _)
PartitionFold(rest, groups) ==
    IF rest = <<>> THEN groups
    ELSE LET c == Head(rest)
             at == {n \in 1..Len(groups) : groups[n].key = c.id.function_id}
         IN  IF at # {}
             THEN LET n == CHOOSE n \in at : TRUE
                  IN  PartitionFold(Tail(rest),
                        [groups EXCEPT ![n].members = Append(@, c)])
             ELSE PartitionFold(Tail(rest),
                    Append(groups, [key |-> c.id.function_id,
                                    members |-> <<c>>]))

group_by_partition(curves) == PartitionFold(curves, <<>>)

group_by(curves) == GroupFold(curves, <<>>)

\* ax.partial_cmp(&bx): None when either is NaN
partial_cmp(a, b) ==
    IF IsNaN(a) \/ IsNaN(b) THEN <<>>
    ELSE IF FLt(a, b) THEN <<"Less">>
    ELSE IF FGt(a, b) THEN <<"Greater">>
    ELSE <<"Equal">>

\* the comparator of line 211: ax.partial_cmp(&bx).unwrap_or(Ordering::Less)
compare_x(a, b) ==
    LET o == partial_cmp(a[1], b[1]) IN IF o = <<>> THEN "Less" ELSE o[1]

\* slice::sort_by is a stable sort: an element moves left past exactly the
\* elements it compares Less than
RECURSIVE InsertStable(_, _)
InsertStable(sorted, e) ==
    IF sorted = <<>> THEN <<e>>
    ELSE LET n == Len(sorted) IN
         IF compare_x(e, sorted[n]) = "Less"
         THEN Append(InsertStable(SubSeq(sorted, 1, n - 1), e), sorted[n])
         ELSE Append(sorted, e)

RECURSIVE SortFold(_, _)
SortFold(rest, sorted) ==
    IF rest = <<>> THEN sorted
    ELSE SortFold(Tail(rest), InsertStable(sorted, Head(rest)))

\* a variant of sort_by that leaves the tuples as they came (the sort of
\* line 163 is commented out in just this way)
sort_by_omitted(tuples) == tuples

sort_by(tuples) == SortFold(tuples, <<>>)

\* the fold of lines 118-121: f64::max over the means, starting from NaN
RECURSIVE MaxMean(_, _)
MaxMean(curves, acc) ==
    IF curves = <<>> THEN acc
    ELSE MaxMean(Tail(curves), f64_max(acc, Mean(Head(curves).sample)))

\* `*x as u64`: the cast truncates toward zero and saturates (NaN is 0)
as_u64(x) ==
    IF ~IsFinite(x) \/ x[1] < 0 THEN 0 ELSE x[1] \div x[2]

\* lines 59-152: tic labels, the figure's axes, `max`, and the locals of
\* the chosen branch
Configure ==
    /\ pc = "configure"
    /\ labels' = [k \in 1..Len(conf.tics) |-> format_bytes(conf.tics[k])]
    /\ max' = IF conf.speedup THEN Num(1) ELSE MaxMean(all_curves, NaN)
    /\ i' = 0
    /\ pos' = 0
    /\ data' = <<>>
    /\ f' = <<>>
    /\ pc' = IF conf.speedup \/ all_curves # <<>> THEN "curves" ELSE "draw"
    /\ UNCHANGED <<all_curves, conf, formatter, min, one, kdes, y_range,
                   rendered>>

\* the (x, y) tuples of a group, lines 201-210
GroupTuples(members) ==
    [k \in 1..Len(members) |->
        <<as_number(members[k].id)[1], Mean(members[k].sample)>>]

Column(tuples, c) == [k \in 1..Len(tuples) |-> tuples[k][c]]

Lines(xs, ys, label, color) ==
    [shape |-> "Lines", x |-> xs, y |-> ys, label |-> label, color |-> color]
Points(xs, ys, color) ==
    [shape |-> "Points", x |-> xs, y |-> ys, label |-> <<>>, color |-> color]

\* one pass of the loop of lines 200-232; unwrap() of a missing number
\* panics
PlotGroup ==
    /\ pc = "curves"
    /\ ~conf.speedup
    /\ LET groups == group_by(all_curves)
           g == groups[pos + 1]
       IN  IF \E k \in 1..Len(g.members) : as_number(g.members[k].id) = <<>>
           THEN /\ pc' = "panicked"
                /\ UNCHANGED <<f, i, pos>>
           ELSE LET tuples == sort_by(GroupTuples(g.members))
                    xs == Column(tuples, 1)
                    ys == scale_values(max, Column(tuples, 2))
                    function_name ==
                        IF g.key = <<>> THEN <<>>
                        ELSE <<gnuplot_escape(g.key[1])>>
                IN  /\ f' = f \o << Lines(xs, ys, function_name, ColorAt(i)),
                                    Points(xs, ys, ColorAt(i)) >>
                    /\ i' = i + 1
                    /\ pos' = pos + 1
                    /\ pc' = IF pos + 1 = Len(groups) THEN "draw" ELSE "curves"
    /\ UNCHANGED <<all_curves, conf, formatter, labels, max, min, one, data,
                   kdes, y_range, rendered>>

\* BTreeMap::insert
MapInsert(m, key, v) ==
    [k \in (DOMAIN m) \cup {key} |-> IF k = key THEN v ELSE m[k]]

\* a variant of SpeedupStep that divides the stored value by the new one
\* whichever function the new one belongs to
SpeedupStep_ignores_baseline(acc, x, y, id) ==
    LET key == as_u64(x)
        d == IF key \in DOMAIN acc.data
             THEN MapInsert(acc.data, key, FDiv(acc.data[key], y))
             ELSE MapInsert(acc.data, key, y)
    IN  [data |-> d, max |-> IF FGt(y, acc.max) THEN y ELSE acc.max]

\* the body of the loop of lines 164-178 for one (x, y, id) tuple
SpeedupStep(acc, x, y, id) ==
    LET key == as_u64(x)
        d == IF key \in DOMAIN acc.data
             THEN LET val == acc.data[key] IN
                  IF id = conf.speedup_id
                  THEN MapInsert(acc.data, key, FDiv(y, val))
                  ELSE MapInsert(acc.data, key, FDiv(val, y))
             ELSE MapInsert(acc.data, key, y)
    IN  [data |-> d, max |-> IF FGt(y, acc.max) THEN y ELSE acc.max]

RECURSIVE SpeedupFold(_, _)
SpeedupFold(members, acc) ==
    IF members = <<>> THEN acc
    ELSE LET c == Head(members) IN
         SpeedupFold(Tail(members),
                     SpeedupStep(acc, as_number(c.id)[1], Mean(c.sample),
                                 c.id.function_id[1]))

\* one pass of the loop of lines 153-179; unwrap() of a missing function
\* id or number panics
AccumulateGroup ==
    /\ pc = "curves"
    /\ conf.speedup
    /\ pos < Len(group_by(all_curves))
    /\ LET g == group_by(all_curves)[pos + 1]
       IN  IF \/ g.key = <<>>
              \/ \E k \in 1..Len(g.members) : as_number(g.members[k].id) = <<>>
           THEN /\ pc' = "panicked"
                /\ UNCHANGED <<data, max, pos>>
           ELSE LET acc == SpeedupFold(g.members, [data |-> data, max |-> max])
                IN  /\ data' = acc.data
                    /\ max' = acc.max
                    /\ pos' = pos + 1
                    /\ pc' = "curves"
    /\ UNCHANGED <<all_curves, conf, formatter, labels, min, one, i, kdes, f,
                   y_range, rendered>>

\* the keys of a BTreeMap in iteration order (ascending)
RECURSIVE SortedKeys(_)
SortedKeys(S) ==
    IF S = {} THEN <<>>
    ELSE LET m == CHOOSE a \in S : \A b \in S : a <= b
         IN  <<m>> \o SortedKeys(S \ {m})

\* lines 180-195: the single "Speedup" series
PlotSpeedup ==
    /\ pc = "curves"
    /\ conf.speedup
    /\ pos = Len(group_by(all_curves))
    /\ LET keys == SortedKeys(DOMAIN data)
           xs == [k \in 1..Len(keys) |-> Num(keys[k])]
           ys == scale_values(max, [k \in 1..Len(keys) |-> data[keys[k]]])
       IN  f' = f \o << Lines(xs, ys, <<"Speedup">>, ColorAt(i)),
                        Points(xs, ys, ColorAt(i)) >>
    /\ pc' = "draw"
    /\ UNCHANGED <<all_curves, conf, formatter, labels, max, min, one, pos, i,
                   data, kdes, y_range, rendered>>

\* lines 235-236 and 325-326: the figure goes to the renderer, whose
\* failure makes unwrap() panic
Draw ==
    /\ pc = "draw"
    /\ rendered' = <<f>>
    /\ \E ok \in BOOLEAN : pc' = IF ok THEN "done" ELSE "panicked"
    /\ UNCHANGED <<all_curves, conf, formatter, labels, max, min, one, pos, i,
                   data, kdes, f, y_range>>

---------------------------------------------------------------------------
(* violin, lines 239-327.                                                  *)

\* kde::sweep(Sample::new(sample), KDE_POINTS, None): the estimate the
\* density collaborator returns for the curve's sample, carried by the curve
sweep(curve) == <<curve.kde.x, curve.kde.y>>

\* a variant of all_curves_vec that keeps the input order
all_curves_vec_forward(curves) == curves

\* line 247: all_curves.iter().rev().cloned().collect()
all_curves_vec(curves) == Reverse(curves)

\* Sample::new(&y).max(), line 254
RECURSIVE SampleMax(_)
SampleMax(y) ==
    IF Len(y) = 1 THEN y[1]
    ELSE LET m == SampleMax(Tail(y))
         IN  IF FLt(m, Head(y)) THEN Head(y) ELSE m

\* a variant of normalize that leaves the densities as estimated
normalize_omitted(y) == y

\* lines 254-257: every density divided by the largest one
normalize(y) == [k \in 1..Len(y) |-> FDiv(y[k], SampleMax(y))]

\* lines 250-261
ViolinKdes ==
    /\ pc = "violin"
    /\ kdes' = LET rev == all_curves_vec(all_curves)
               IN  [k \in 1..Len(rev) |->
                       <<sweep(rev[k])[1], normalize(sweep(rev[k])[2])>>]
    /\ pc' = "range"
    /\ UNCHANGED <<all_curves, conf, formatter, labels, max, min, one, pos, i,
                   data, f, y_range, rendered>>

\* lines 262-265: every x of every estimate, in order, that is > 0
RECURSIVE PositiveXs(_)
PositiveXs(ks) ==
    IF ks = <<>> THEN <<>>
    ELSE SelectSeq(Head(ks)[1], LAMBDA x : FGt(x, Num(0)))
             \o PositiveXs(Tail(ks))

\* lines 270-276
RECURSIVE MinMax(_, _)
MinMax(xs, acc) ==
    IF xs = <<>> THEN acc
    ELSE LET e == Head(xs)
         IN  MinMax(Tail(xs),
                    IF FLt(e, acc[1]) THEN <<e, acc[2]>>
                    ELSE IF FGt(e, acc[2]) THEN <<acc[1], e>>
                    ELSE acc)

\* lines 262-281: the X range and the unit; next().unwrap() panics when no
\* estimate has a positive x
ViolinRange ==
    /\ pc = "range"
    /\ LET xs == PositiveXs(kdes)
       IN  IF xs = <<>>
           THEN /\ pc' = "panicked"
                /\ UNCHANGED <<min, max, one>>
           ELSE LET mm == MinMax(Tail(xs), <<Head(xs), Head(xs)>>)
                    mid == FDiv(FAdd(mm[1], mm[2]), Num(2))
                IN  /\ min' = mm[1]
                    /\ max' = mm[2]
                    /\ one' = scale_values(mid, <<Num(1)>>)[1]
                    /\ pc' = "axes"
    /\ UNCHANGED <<all_curves, conf, formatter, labels, pos, i, data, kdes, f,
                   y_range, rendered>>

\* line 283: tics() yields 0.5, 1.5, 2.5, ...
Tic(k) == FAdd(Num(k), Frac(1, 2))

\* lines 283-305: the left Y axis; TicLabels pairs tics() with the titles
ViolinAxes ==
    /\ pc = "axes"
    /\ y_range' = <<Num(0), Num(Len(all_curves_vec(all_curves)))>>
    /\ labels' = LET rev == all_curves_vec(all_curves)
                 IN  [k \in 1..Len(rev) |->
                         [position |-> Tic(k - 1),
                          label |-> gnuplot_escape(rev[k].id.title)]]
    /\ f' = <<>>
    /\ pos' = 0
    /\ pc' = IF kdes = <<>> THEN "draw" ELSE "lanes"
    /\ UNCHANGED <<all_curves, conf, formatter, max, min, one, i, data, kdes,
                   rendered>>

\* the band of lines 309-311 around lane `lane` (counted from 0)
BandUpper(lane, y) ==
    [k \in 1..Len(y) |-> FAdd(Tic(lane), FMul(y[k], Frac(45, 100)))]
BandLower(lane, y) ==
    [k \in 1..Len(y) |-> FSub(Tic(lane), FMul(y[k], Frac(45, 100)))]

\* one pass of the loop of lines 308-324
PlotLane ==
    /\ pc = "lanes"
    /\ LET k == kdes[pos + 1]
       IN  f' = Append(f,
                  [shape |-> "FilledCurve",
                   x |-> [p \in 1..Len(k[1]) |-> FMul(k[1][p], one)],
                   y1 |-> BandUpper(pos, k[2]),
                   y2 |-> BandLower(pos, k[2]),
                   label |-> IF pos = 0 THEN <<"PDF">> ELSE <<>>])
    /\ pos' = pos + 1
    /\ pc' = IF pos + 1 = Len(kdes) THEN "draw" ELSE "lanes"
    /\ UNCHANGED <<all_curves, conf, formatter, labels, max, min, one, i, data,
                   kdes, y_range, rendered>>

---------------------------------------------------------------------------
(* The inputs of the calls.                                                *)

None == <<>>
Some(v) == <<v>>

\* samples of two measurements; their means are 2 and 4
Samples == {<<2, 2>>, <<3, 5>>}

\* parameter values 1, 1.5 and 2
Params == {Num(1), Frac(3, 2), Num(2)}

Curve(fid, value, sample) ==
    [id |-> [function_id |-> fid, value |-> value], sample |-> sample]

CurveSet(fids, values, samples) ==
    {Curve(fid, v, s) : fid \in fids, v \in values, s \in samples}

\* a formatter that never rescales, and one that rescales below 3
Formatters == {0, 3}

Conf(speedup, tics) ==
    [speedup |-> speedup, speedup_id |-> "A", tics |-> tics]

\* the state at the entry of line_comparison
LineEntry(curves, cf, fmt) ==
    /\ all_curves = curves
    /\ conf = cf
    /\ formatter = fmt
    /\ pc = "configure"
    /\ labels = <<>> /\ max = NaN /\ min = NaN /\ one = Num(1)
    /\ pos = 0 /\ i = 0 /\ data = <<>> /\ kdes = <<>> /\ f = <<>>
    /\ y_range = <<>> /\ rendered = <<>>

\* speedup off; curves of two functions with numeric or missing parameters
Init ==
    \E curves \in SeqsUpTo(CurveSet({Some("A"), Some("B")},
                                    {None} \cup {Some(x) : x \in Params},
                                    Samples), MaxCurves),
       fmt \in Formatters :
        LineEntry(curves, Conf(FALSE, <<>>), fmt)

NextPlain == Configure \/ PlotGroup \/ Draw

Spec == Init /\ [][NextPlain]_vars

\* speedup off; one parameter value and one sample, curves of two
\* functions or of none, long enough for runs to repeat
InitRuns ==
    \E curves \in SeqsUpTo(CurveSet({Some("A"), Some("B"), None},
                                    {Some(Num(1))}, {<<2, 2>>}),
                           MaxRunCurves) :
        LineEntry(curves, Conf(FALSE, <<>>), 0)

SpecRuns == InitRuns /\ [][NextPlain]_vars

\* speedup off; inputs long enough to use the palette more than once
InitPalette ==
    \E curves \in SeqsUpTo(CurveSet({Some("A"), Some("B")},
                                    {Some(Num(1))}, {<<2, 2>>}),
                           MaxPaletteCurves) :
        LineEntry(curves, Conf(FALSE, <<>>), 0)

SpecPalette == InitPalette /\ [][NextPlain]_vars

\* byte counts around the unit boundaries and the rounding ties
ByteCounts ==
    {<<g, m, k, b>> : g \in {0, 1, 3}, m \in {0, 1, 5, 1023},
                      k \in {0, 1, 2, 1023},
                      b \in {0, 1, 511, 512, 513, 1023}}

\* speedup off; one curve, and explicit tics
InitBytes ==
    \E tics \in SeqsUpTo(ByteCounts, MaxTics) :
        LineEntry(<<Curve(Some("A"), Some(Num(1)), <<2, 2>>)>>,
                  Conf(FALSE, tics), 0)

SpecBytes == InitBytes /\ [][NextPlain]_vars

\* speedup on, with "A" the baseline function
InitSpeedup ==
    \E curves \in SeqsUpTo(CurveSet({Some("A"), Some("B"), None},
                                    {Some(x) : x \in Params}, Samples),
                           MaxSpeedupCurves) :
        LineEntry(curves, Conf(TRUE, <<>>), 3)

NextSpeedup == Configure \/ AccumulateGroup \/ PlotSpeedup \/ Draw

SpecSpeedup == InitSpeedup /\ [][NextSpeedup]_vars

\* the estimates the density collaborator may return: a peak in the middle,
\* a plateau with a non-positive x, and a degenerate one whose peak is zero
KdeResults ==
    { [x |-> <<Num(1), Num(2), Num(3)>>, y |-> <<Num(1), Num(2), Num(1)>>],
      [x |-> <<Num(-1), Num(2), Num(5)>>, y |-> <<Num(3), Num(3), Num(1)>>],
      [x |-> <<Num(1), Num(2), Num(3)>>, y |-> <<Num(0), Num(0), Num(0)>>] }

ViolinCurves ==
    {[id |-> [title |-> t], sample |-> <<2, 2>>, kde |-> e] :
        t \in {"a", "b"}, e \in KdeResults}

\* the state at the entry of violin
InitViolin ==
    \E curves \in SeqsUpTo(ViolinCurves, MaxViolinCurves),
       fmt \in Formatters :
        /\ all_curves = curves
        /\ conf = <<>>
        /\ formatter = fmt
        /\ pc = "violin"
        /\ labels = <<>> /\ max = NaN /\ min = NaN /\ one = Num(1)
        /\ pos = 0 /\ i = 0 /\ data = <<>> /\ kdes = <<>> /\ f = <<>>
        /\ y_range = <<>> /\ rendered = <<>>

NextViolin == ViolinKdes \/ ViolinRange \/ ViolinAxes \/ PlotLane \/ Draw

SpecViolin == InitViolin /\ [][NextViolin]_vars

---------------------------------------------------------------------------
(* Properties.                                                             *)

NumCurves == Len(all_curves)
FunctionId(k) == all_curves[k].id.function_id
LoopDone == pc \in {"draw", "done"}

\* the number of indices of a sequence holding element e
Count(seq, e) == Cardinality({k \in 1..Len(seq) : seq[k] = e})

\* the indices at which a maximal run of equal function ids starts
RunStarts ==
    {k \in 1..NumCurves : k = 1 \/ FunctionId(k) # FunctionId(k - 1)}
RunStart(g) ==
    CHOOSE s \in RunStarts : Cardinality({t \in RunStarts : t <= s}) = g
RunEnd(s) ==
    CHOOSE e \in s..NumCurves :
        /\ \A j \in s..e : FunctionId(j) = FunctionId(s)
        /\ e = NumCurves \/ FunctionId(e + 1) # FunctionId(s)

\* C1: with speedup off, once the loop over the groups has ended the
\* figure holds one Lines and one Points series per maximal run of
\* consecutive curves with equal function_id, in input order: the g-th pair
\* of series carries the label of the g-th run's function (none for None)
\* and as many points as the run has curves.
C1_GroupsAreConsecutiveRuns ==
    (LoopDone /\ ~conf.speedup) =>
        /\ Len(f) = 2 * Cardinality(RunStarts)
        /\ i = Cardinality(RunStarts)
        /\ \A g \in 1..Cardinality(RunStarts) :
              LET s == RunStart(g) IN
              /\ f[2 * g - 1].shape = "Lines"
              /\ f[2 * g].shape = "Points"
              /\ f[2 * g - 1].label =
                     (IF FunctionId(s) = <<>> THEN <<>>
                      ELSE <<gnuplot_escape(FunctionId(s)[1])>>)
              /\ Len(f[2 * g - 1].x) = RunEnd(s) - s + 1
              /\ Len(f[2 * g].x) = RunEnd(s) - s + 1

\* C1 witness: the input [A, A, B, B, A] has been drawn as three groups.
C1_Witness ==
    /\ pc = "done"
    /\ [k \in 1..NumCurves |-> FunctionId(k)]
           = <<Some("A"), Some("A"), Some("B"), Some("B"), Some("A")>>
    /\ Len(f) = 6
    /\ f[5].label = <<gnuplot_escape("A")>>

\* the (x, scaled mean) pair the k-th member of a group contributes
ExpectedPoint(c) ==
    <<as_number(c.id)[1], FMul(Mean(c.sample), ScaleFactor(max))>>
SeriesPoints(ser) == [k \in 1..Len(ser.x) |-> <<ser.x[k], ser.y[k]>>]

\* C3: with speedup off, the x coordinates of every emitted series are in
\* non-decreasing order, and the series holds exactly the (x, y) pairs of
\* its group's curves, each x with the (unit-scaled) mean of its own
\* curve's sample; the Points series repeats the Lines series.
C3_GroupSortedByParameter ==
    ~conf.speedup =>
        \A g \in 1..(Len(f) \div 2) :
            LET ser == f[2 * g - 1]
                members == group_by(all_curves)[g].members
                expected == [k \in 1..Len(members) |->
                                ExpectedPoint(members[k])]
            IN  /\ Len(ser.x) = Len(members)
                /\ Len(ser.y) = Len(members)
                /\ \A k \in 1..(Len(ser.x) - 1) : FLe(ser.x[k], ser.x[k + 1])
                /\ \A k \in 1..Len(members) :
                      Count(SeriesPoints(ser), expected[k])
                          = Count(expected, expected[k])
                /\ f[2 * g].x = ser.x
                /\ f[2 * g].y = ser.y

\* C3 witness: a group given in the order 2, 1, 1.5 with different means
\* has been drawn in the order 1, 1.5, 2.
C3_Witness ==
    /\ pc = "done"
    /\ NumCurves = 3
    /\ [k \in 1..3 |-> as_number(all_curves[k].id)]
           = <<Some(Num(2)), Some(Num(1)), Some(Frac(3, 2))>>
    /\ FunctionId(1) = FunctionId(2) /\ FunctionId(2) = FunctionId(3)
    /\ all_curves[1].sample # all_curves[2].sample
    /\ Len(f) = 2
    /\ f[1].x = <<Num(1), Frac(3, 2), Num(2)>>
    /\ f[1].y[1] # f[1].y[3]

\* C6: with speedup off, the group at position k (from 0) has palette
\* colour k mod 9 on both its series, whatever its function; positions
\* that differ by 9 share a colour and no others do, so the group at
\* position 9 has the colour of the group at position 0.
C6_ColourByGroupPosition ==
    ~conf.speedup =>
        /\ \A k \in 0..((Len(f) \div 2) - 1) :
              /\ f[2 * k + 1].color = COMPARISON_COLORS[(k % 9) + 1]
              /\ f[2 * k + 2].color = COMPARISON_COLORS[(k % 9) + 1]
        /\ \A k, m \in 0..((Len(f) \div 2) - 1) :
              (f[2 * k + 1].color = f[2 * m + 1].color) <=> (k % 9 = m % 9)
        /\ Len(f) >= 20 => f[19].color = f[1].color

\* C6 witness: eleven groups drawn; the one at position 9 is of another
\* function than the one at position 0 and has its colour.
C6_Witness ==
    /\ pc = "done"
    /\ Len(f) = 22
    /\ f[19].color = f[1].color
    /\ f[19].label # f[1].label
    /\ f[21].color = f[3].color

\* the curves whose parameter has the integer key `key`
CurvesAt(key) ==
    {k \in 1..NumCurves : as_u64(as_number(all_curves[k].id)[1]) = key}
IsBaseline(k) == FunctionId(k) = Some(conf.speedup_id)
MeanOf(k) == Mean(all_curves[k].sample)

C8_MissingBaselineFails ==
    (conf.speedup /\ rendered # <<>>) =>
        \A key \in DOMAIN data :
            /\ Cardinality(CurvesAt(key)) >= 2
            /\ \E k \in CurvesAt(key) : IsBaseline(k)

\* C9: a figure reaches the renderer only if the input had curves.
C9_EmptyInputNotRendered ==
    rendered # <<>> => all_curves # <<>>

\* the largest unit (0: b, 1: Kb, 2: Mb, 3: Gb) in which a count is >= 1
LargestUnit(t) ==
    IF t[1] > 0 THEN 3 ELSE IF t[2] > 0 THEN 2 ELSE IF t[3] > 0 THEN 1 ELSE 0
UnitNames == <<"b", "Kb", "Mb", "Gb">>
\* a count is Whole(t) + Rest(t) / UnitSize(t) of its largest unit
Whole(t) == t[4 - LargestUnit(t)]
Rest(t) ==
    IF LargestUnit(t) = 3 THEN (t[2] * 1024 + t[3]) * 1024 + t[4]
    ELSE IF LargestUnit(t) = 2 THEN t[3] * 1024 + t[4]
    ELSE IF LargestUnit(t) = 1 THEN t[4]
    ELSE 0
UnitSize(t) ==
    IF LargestUnit(t) = 3 THEN 1024 * 1024 * 1024
    ELSE IF LargestUnit(t) = 2 THEN 1024 * 1024
    ELSE IF LargestUnit(t) = 1 THEN 1024
    ELSE 1

\* C5: every tic of at least one byte is labelled with an integer n and
\* the name of the largest unit of b, Kb, Mb, Gb in which the count is at
\* least 1, n being within one half of the count in that unit; 512 is
\* "512b", 2048 "2Kb", 5*1024^2 "5Mb", 3*1024^3 "3Gb", and the unit changes
\* exactly at 1024, 1024^2 and 1024^3.
C5_LargestUnitRounded ==
    pc # "configure" =>
        /\ Len(labels) = Len(conf.tics)
        /\ \A j \in 1..Len(conf.tics) :
              LET t == conf.tics[j] IN
              /\ t # <<0, 0, 0, 0>> =>
                    \E n \in {Whole(t), Whole(t) + 1} :
                        /\ labels[j] = Decimal(n) \o UnitNames[LargestUnit(t) + 1]
                        /\ n = Whole(t) => 2 * Rest(t) <= UnitSize(t)
                        /\ n = Whole(t) + 1 => 2 * Rest(t) >= UnitSize(t)
              /\ t = <<0, 0, 0, 512>> => labels[j] = "512b"
              /\ t = <<0, 0, 2, 0>> => labels[j] = "2Kb"
              /\ t = <<0, 5, 0, 0>> => labels[j] = "5Mb"
              /\ t = <<3, 0, 0, 0>> => labels[j] = "3Gb"
              /\ t = <<0, 0, 0, 1023>> => labels[j] = "1023b"
              /\ t = <<0, 0, 1, 0>> => labels[j] = "1Kb"
              /\ t = <<0, 0, 1023, 1023>> => labels[j] = "1024Kb"
              /\ t = <<0, 1, 0, 0>> => labels[j] = "1Mb"
              /\ t = <<0, 1023, 1023, 1023>> => labels[j] = "1024Mb"
              /\ t = <<1, 0, 0, 0>> => labels[j] = "1Gb"

\* C5 witness: the tic 3*1024^3 has been labelled "3Gb".
C5_Witness ==
    /\ pc = "done"
    /\ conf.tics = << <<3, 0, 0, 0>> >>
    /\ labels = <<"3Gb">>

\* the curve drawn in lane `lane` (counted from 0): lanes run against the
\* input order
LaneCurve(lane) == all_curves[NumCurves - lane]
\* the largest density of an estimate
Peak(y) == CHOOSE m \in {y[p] : p \in 1..Len(y)} :
               \A p \in 1..Len(y) : FLe(y[p], m)
Degenerate(lane) == Peak(LaneCurve(lane).kde.y) = Num(0)

\* C4: for every curve whose estimate has a positive peak, the normalized
\* densities lie in [0, 1] and reach 1; its lane i is drawn as the band
\* [i + 0.5 - 0.45 d, i + 0.5 + 0.45 d], so no more than 0.45 from the
\* centre, inside the Y range [0, number of curves] and strictly below the
\* band of every later such lane.
C4_NormalizedBandsStayInLane ==
    /\ \A l \in 0..(Len(kdes) - 1) :
          ~Degenerate(l) =>
              LET d == kdes[l + 1][2] IN
              /\ \E p \in 1..Len(d) : d[p] = Num(1)
              /\ \A p \in 1..Len(d) : FLe(Num(0), d[p]) /\ FLe(d[p], Num(1))
    /\ pc \in {"lanes", "draw", "done"} =>
          /\ y_range = <<Num(0), Num(NumCurves)>>
          /\ \A l \in 0..(Len(f) - 1) :
                ~Degenerate(l) =>
                    LET d == kdes[l + 1][2]
                        centre == Frac(2 * l + 1, 2)
                    IN  \A p \in 1..Len(d) :
                          /\ f[l + 1].y1[p]
                                 = FAdd(centre, FMul(Frac(45, 100), d[p]))
                          /\ f[l + 1].y2[p]
                                 = FSub(centre, FMul(Frac(45, 100), d[p]))
                          /\ FLe(FSub(f[l + 1].y1[p], centre), Frac(45, 100))
                          /\ FLe(FSub(centre, f[l + 1].y2[p]), Frac(45, 100))
                          /\ FLe(y_range[1], f[l + 1].y2[p])
                          /\ FLe(f[l + 1].y1[p], y_range[2])
          /\ \A l, m \in 0..(Len(f) - 1) :
                (l < m /\ ~Degenerate(l) /\ ~Degenerate(m)) =>
                    \A p \in 1..Len(f[l + 1].y1), q \in 1..Len(f[m + 1].y2) :
                        FLt(f[l + 1].y1[p], f[m + 1].y2[q])

\* C4 witness: two lanes with positive peaks are drawn, the upper one
\* reaching its full half-width of 0.45.
C4_Witness ==
    /\ pc = "done"
    /\ Len(f) = 2
    /\ ~Degenerate(0) /\ ~Degenerate(1)
    /\ \E p \in 1..Len(f[2].y1) : f[2].y1[p] = Frac(195, 100)
    /\ \E p \in 1..Len(f[2].y1) : FLt(f[2].y1[p], Frac(195, 100))

\* C7: a curve whose estimate has a zero peak gets the normalized density
\* 0 and is drawn as the zero-width band at its lane's centre.
C7_ZeroPeakSafeDefault ==
    /\ \A l \in 0..(Len(kdes) - 1) :
          Degenerate(l) =>
              \A p \in 1..Len(kdes[l + 1][2]) : kdes[l + 1][2][p] = Num(0)
    /\ \A l \in 0..(Len(f) - 1) :
          Degenerate(l) =>
              \A p \in 1..Len(f[l + 1].y1) :
                  /\ f[l + 1].y1[p] = Frac(2 * l + 1, 2)
                  /\ f[l + 1].y2[p] = Frac(2 * l + 1, 2)

\* C10: once the loop over the lanes has ended there is one filled band
\* and one Y tic per input curve; the curve at input position j (from 0)
\* of n has its estimate drawn around the offset (n - 1 - j) + 0.5 and
\* its title as the label of the tic at that offset.
C10_LanesReverseInputOrder ==
    (LoopDone /\ kdes # <<>>) =>
        /\ Len(f) = NumCurves
        /\ Len(labels) = NumCurves
        /\ \A j \in 0..(NumCurves - 1) :
              LET c == all_curves[j + 1]
                  lane == NumCurves - 1 - j
                  offset == Frac(2 * lane + 1, 2)
                  band == f[lane + 1]
                  peak == Peak(c.kde.y)
              IN  /\ labels[lane + 1].position = offset
                  /\ labels[lane + 1].label = gnuplot_escape(c.id.title)
                  /\ band.shape = "FilledCurve"
                  /\ band.x = [p \in 1..Len(c.kde.x) |-> FMul(c.kde.x[p], one)]
                  /\ peak # Num(0) =>
                        \A p \in 1..Len(c.kde.y) :
                            /\ FAdd(band.y1[p], band.y2[p]) = Num(2 * lane + 1)
                            /\ FSub(band.y1[p], band.y2[p])
                                   = FMul(Frac(9, 10), FDiv(c.kde.y[p], peak))

\* C10 witness: three curves with different titles and estimates at the
\* ends are drawn; the first input is in the top lane, under its title.
C10_Witness ==
    /\ pc = "done"
    /\ NumCurves = 3
    /\ all_curves[1].id.title # all_curves[3].id.title
    /\ all_curves[1].kde # all_curves[3].kde
    /\ Peak(all_curves[1].kde.y) # Num(0)
    /\ Peak(all_curves[3].kde.y) # Num(0)
    /\ labels[3].label = gnuplot_escape(all_curves[1].id.title)
    /\ FAdd(f[3].y1[1], f[3].y2[1]) = Num(5)

===========================================================================
